---- MODULE Spec2Model ----
(***************************************************************************)
(* Map3D (src/src/types/index.ts): the user building / tree stores held in *)
(* the GeoJSON sources of the map, their localStorage snapshots, the       *)
(* three.js layer manager (mesh index, scene, mesh objects), the           *)
(* requestAnimationFrame animation closures and the deferred               *)
(* post-placement height timer.                                            *)
(*                                                                         *)
(* Time is kept relative: every pending animation closure and timer        *)
(* carries e = now - start, capped at its duration, instead of an          *)
(* absolute clock.  Scale values are kept exact: a rational, or a rational *)
(* followed by the interpolation steps applied to it.                      *)
(*                                                                         *)
(* Spec is the component in an environment where setData, the localStorage *)
(* writes and the creation of the three.js layer succeed; src._data is the *)
(* last collection given to the source.  SpecFoot is the footprint         *)
(* generator (rectanglePolygonAround, circlePolygonAround) called on its   *)
(* own, in fixed-point arithmetic.                                         *)
(* SpecFault is Spec with a localStorage whose setItem may throw, which    *)
(* saveToStorage swallows.  SpecRender is the custom layer with its render *)
(* callback next to the animation frames.  SpecOrder is Spec with the      *)
(* order of the setData, saveToStorage and mesh manager calls of each      *)
(* handler, and the target of each height animation, recorded.             *)
(* SpecInputs is Spec given files and typed values no handler checks       *)
(* (a repeated id, a negative height, an open ring, a tree with the id of  *)
(* a building, a footprint beyond latitude 90).  SpecSource is Spec with the handlers also run while      *)
(* setData throws.  SpecProps is the property panel of the selected        *)
(* building, SpecLive the animations of the buildings placed in a session  *)
(* under fair delivery of the requested animation frames.                  *)
(* SpecPlacing is Spec with the Click-to-place toggle.  SpecRotate is the  *)
(* geometry of rotateSelectedBuilding applied to generated and drawn       *)
(* rings, next to the rotate handler of the component.  SpecScale is the   *)
(* target scale of updateHeight in a number format with a bounded          *)
(* exponent.                                                               *)
(***************************************************************************)
EXTENDS Integers, Sequences, FiniteSets, TLC

\* ---------------------------------------------------------------- bounds
MaxOps == 2
\* largest binary exponent of the number format
MaxExp == 5
TimeStep == 250

\* ------------------------------------------------------ program constants
RiseDur == 700
HeightDur == 500
TimerDelay == 450
FullTurn == 360

Null == 0

\* ------------------------------------------------------------- utilities
Min(a, b) == IF a < b THEN a ELSE b

Abs(a) == IF a < 0 THEN -a ELSE a

RECURSIVE GCD(_, _)
GCD(a, b) == IF b = 0 THEN a ELSE GCD(b, a % b)

\* n / d as a normalised fraction <<num, den>>, den > 0
Rat(n, d) ==
  LET g == GCD(Abs(n), Abs(d))
      s == IF d < 0 THEN -1 ELSE 1
  IN <<(s * n) \div g, (s * d) \div g>>

\* JavaScript a % n : the remainder takes the sign of the dividend
JsRem(a, n) == IF a >= 0 THEN a % n ELSE -((-a) % n)

Ids(s) == {s[i].id : i \in DOMAIN s}

\* Array.prototype.findIndex on properties.id ; 0 stands for -1
FindIndex(s, id) ==
  IF \E i \in DOMAIN s : s[i].id = id
  THEN CHOOSE i \in DOMAIN s : s[i].id = id /\ \A j \in 1..(i - 1) : s[j].id # id
  ELSE 0

Splice(s, i) == SubSeq(s, 1, i - 1) \o SubSeq(s, i + 1, Len(s))

Restrict(f, S) == [x \in S |-> f[x]]

\* ---------------------------------------------------------- scale values
Exact(r) == [base |-> r, path |-> <<>>]

RiseFrom == Exact(Rat(1, 1000))

\* the closure without its else branch: at t = 1 the value is the computed
\* from + (to - from) * 1
Interp_NoSnap(from, to, e, dur) ==
  IF e = 0 THEN from
  ELSE IF from = Exact(to) THEN from
  ELSE [base |-> from.base, path |-> Append(from.path, [to |-> to, e |-> e, dur |-> dur])]

\* from + (to - from) * (1 - (1 - t)^3) with t = min(1, e / dur), followed by
\* the closure's snap to `to` once t reaches 1
Interp(from, to, e, dur) ==
  IF e >= dur THEN Exact(to)
  ELSE IF e = 0 THEN from
  ELSE IF from = Exact(to) THEN from
  ELSE [base |-> from.base, path |-> Append(from.path, [to |-> to, e |-> e, dur |-> dur])]

Dur(kind) == IF kind = "rise" THEN RiseDur ELSE HeightDur

\* ------------------------------------------------- coordinate transform
\* Coordinates are integers in units of 1e-7 degree, lengths in millimetres,
\* angles in whole degrees (multiples of 15); cosines are in thousandths.
Quot(a, b) == IF a >= 0 THEN a \div b ELSE -((-a) \div b)

CosTable(d) ==
  CASE d = 0 -> 1000 [] d = 15 -> 966 [] d = 30 -> 866 [] d = 45 -> 707
    [] d = 60 -> 500 [] d = 75 -> 259 [] d = 90 -> 0

\* Math.cos of an angle in degrees
CosMilli(deg) ==
  LET r == deg % FullTurn
      a == IF r > 180 THEN FullTurn - r ELSE r
  IN IF a > 90 THEN -CosTable(180 - a) ELSE CosTable(a)

\* Math.sin of an angle in degrees
SinMilli(deg) == CosMilli(deg - 90)

\* Math.cos((lat * Math.PI) / 180) at the latitudes of the placement centres
CosLatMilli(lat) ==
  IF Abs(lat) < 100000000 THEN 1000
  ELSE IF Abs(lat) < 560000000 THEN 622
  ELSE 500

MetersPerDegree == 111320

metersToLatDegrees(mm) == Quot(mm * 10000, MetersPerDegree)

metersToLngDegrees(mm, lat) ==
  Quot(mm * 10000, Quot(MetersPerDegree * CosLatMilli(lat), 1000))

\* ------------------------------------------------- footprint generator
RectCorner(lng, lat, dxy, rotationDeg) ==
  LET dLng == metersToLngDegrees(dxy[1], lat)
      dLat == metersToLatDegrees(dxy[2])
      cos  == CosMilli(rotationDeg)
      sin  == SinMilli(rotationDeg)
      rx   == Quot(dLng * cos - dLat * sin, 1000)
      ry   == Quot(dLng * sin + dLat * cos, 1000)
  IN <<lng + rx, lat + ry>>

\* rectanglePolygonAround without the closing point
rectanglePolygonAround_Open(lng, lat, widthMeters, depthMeters, rotationDeg) ==
  LET hw == Quot(widthMeters, 2)
      hd == Quot(depthMeters, 2)
      local == << <<-hw, -hd>>, <<hw, -hd>>, <<hw, hd>>, <<-hw, hd>> >>
  IN [i \in 1..4 |-> RectCorner(lng, lat, local[i], rotationDeg)]

rectanglePolygonAround(lng, lat, widthMeters, depthMeters, rotationDeg) ==
  LET hw == Quot(widthMeters, 2)
      hd == Quot(depthMeters, 2)
      local == << <<-hw, -hd>>, <<hw, -hd>>, <<hw, hd>>, <<-hw, hd>> >>
      coords == [i \in 1..4 |-> RectCorner(lng, lat, local[i], rotationDeg)]
  IN Append(coords, coords[1])

CirclePoint(lng, lat, radiusMeters, segments, i) ==
  LET angle == Quot(i * FullTurn, segments)
      dx == Quot(CosMilli(angle) * radiusMeters, 1000)
      dy == Quot(SinMilli(angle) * radiusMeters, 1000)
  IN <<lng + metersToLngDegrees(dx, lat), lat + metersToLatDegrees(dy)>>

\* circlePolygonAround whose loop stops one segment early
circlePolygonAround_Short(lng, lat, radiusMeters, segments) ==
  LET coords == [i \in 1..(segments - 1) |-> CirclePoint(lng, lat, radiusMeters, segments, i - 1)]
  IN Append(coords, IF segments <= 1 THEN <<>> ELSE coords[1])

\* coords[0] of an empty array is undefined: written <<>>
circlePolygonAround(lng, lat, radiusMeters, segments) ==
  LET coords == [i \in 1..segments |-> CirclePoint(lng, lat, radiusMeters, segments, i - 1)]
  IN Append(coords, IF segments = 0 THEN <<>> ELSE coords[1])

\* ------------------------------------------------------------- inputs
\* heights typed into the "Height (m)" fields
PlaceHeights == {12}
UpdateHeights == {10, 30}
\* deltaDeg of rotateSelectedBuilding: the two buttons, and the 345 of Scenario C
Deltas == {15, -15, 345}
TreeSizes == {6}
\* placement centres <<lng, lat>>: (0, 0), London (-0.1276, 51.5072), (10, 60)
Centers == { <<0, 0>>, <<-1276000, 515072000>>, <<100000000, 600000000>> }
Widths == {12000, 8000}
Depths == {12000, 20000}
Rotations == {0, 15, 30, 90, -15, 345}
Radii == {8000, 5000}
Segments == {0, 1, 2, 3, 4, 6, 8, 12, 24}

\* colours picked in the colour inputs, texts typed into "Content / Notes"
DefaultColor == "#c44e3b"
Colors == {"#00ff00"}
Contents == {"note"}

\* closed: the first and the last position of the polygon ring are equal
Building(id, h, rot, ok) ==
  [id |-> id, height |-> h, rotation |-> rot, valid |-> ok, closed |-> TRUE,
   color |-> DefaultColor, content |-> ""]

\* feature collections read from a file or found in localStorage; a feature
\* with valid = FALSE carries coordinates MercatorCoordinate.fromLngLat rejects
BuildingDocs ==
  { <<Building(11, 10, 0, TRUE)>>,
    <<Building(12, 30, 0, TRUE)>>,
    <<Building(13, 10, 0, FALSE)>> }
TreeDocs == { <<[id |-> 21, size |-> 6]>> }

\* documents with two features of one id, with a negative height, with a
\* ring that is not closed; a negative number typed into "Height (m)"
RepeatedIdDocs == { <<Building(11, 10, 0, TRUE), Building(11, 30, 0, TRUE)>> }
NegativeHeightDocs == { <<Building(12, -5, 0, TRUE)>> }
OpenRingDocs == { <<[Building(13, 10, 0, TRUE) EXCEPT !.closed = FALSE]>> }
NegativeHeights == {-5}
\* a trees document whose feature has the id of building 11
CollidingTreeDocs == { <<[id |-> 11, size |-> 6]>> }

\* contents of files handed to importGeoJSON that are no feature collection:
\* text JSON.parse rejects, and the JSON text null
BadFiles == {"unparseable", "null"}

\* projection matrices the host supplies to render, by name
Matrices == {"M1", "M2", "M3"}
\* projectionMatrix of a new THREE.Camera
IdentityMatrix == "identity"
CameraUndefined == "undefined"
NoDraw == [supplied |-> "none", before |-> "none", used |-> "none"]

\* values of the error banner
NoError == "none"
InvalidGeoJSON == "Invalid GeoJSON"
NothingToExport == "Nothing to export"
FailedToAdd == "Failed to add building (source error)"
FailedClearing == "Failed clearing buildings"

\* loadFromStorage returns null: no item under the key, or the item "null"
NoStore == [some |-> FALSE, features |-> <<>>]
Stored(fs) == [some |-> TRUE, features |-> fs]

\* ------------------------------------------------------------- state
\* --------------------------------------------------------- number format
\* A JavaScript number reduced to its class and binary exponent: zero, a
\* power of two 2^exp with |exp| <= MaxExp, Infinity or NaN. A quotient
\* beyond the largest exponent is Infinity, one below the smallest is 0,
\* as in the double format (whose largest exponent is 1023).
FZero == [cls |-> "zero", exp |-> 0]
FInfinity == [cls |-> "inf", exp |-> 0]
FNaN == [cls |-> "nan", exp |-> 0]
Pow2(k) == [cls |-> "finite", exp |-> k]
FOne == Pow2(0)

\* the finite non-negative numbers of the format
Heights == {FZero} \cup {Pow2(k) : k \in (-MaxExp)..MaxExp}

\* a / b of two non-negative numbers
FDiv(a, b) ==
  CASE a.cls = "nan" \/ b.cls = "nan" -> FNaN
    [] a.cls = "zero" /\ b.cls = "zero" -> FNaN
    [] a.cls = "inf" /\ b.cls = "inf" -> FNaN
    [] a.cls = "zero" \/ b.cls = "inf" -> FZero
    [] b.cls = "zero" \/ a.cls = "inf" -> FInfinity
    [] OTHER -> IF a.exp - b.exp > MaxExp THEN FInfinity
                ELSE IF a.exp - b.exp < -MaxExp THEN FZero
                ELSE Pow2(a.exp - b.exp)

\* a || b : 0 and NaN are falsy
JsOr(a, b) == IF a.cls \in {"zero", "nan"} THEN b ELSE a

\* to = newH / (old || newH || 1), in the number format
TargetScaleFloat(old, newH) == FDiv(newH, JsOr(old, JsOr(newH, FOne)))

NoCall == [old |-> FNaN, newH |-> FNaN, to |-> FNaN]

VARIABLES
  phase,       \* "init": map created, load not yet fired; "ready"; "unmounted"
  bdata,       \* features of the "user-buildings" source (_data.features)
  tdata,       \* features of the "user-trees" source
  bstore,      \* localStorage[USER_BUILDINGS_KEY]
  tstore,      \* localStorage[USER_TREES_KEY]
  selectedId,
  meshes,      \* manager.meshes : feature id -> mesh handle
  sceneDef,    \* manager.scene is defined
  scene,       \* mesh handles that are children of manager.scene
  obj,         \* the THREE.Mesh objects still referenced, by handle
  anims,       \* pending requestAnimationFrame closures, in registration order
  timers,      \* pending setTimeout closures of appendBuildingFeature
  nextId,      \* ids handed out by cryptoRandomId so far, plus one
  nBuilt,      \* calls of buildMeshFromPolygon so far
  ops,         \* operations so far
  foot,        \* the last call of the footprint generator and its result
  error,       \* message shown in the error banner, NoError for none
  storageOk, \* localStorage.setItem succeeds (FALSE: it throws, e.g. quota exceeded)
  camera,    \* manager.camera.projectionMatrix; CameraUndefined without a camera
  drawn,     \* the last renderer.render call: matrix supplied to the tick, matrix used
  effects,   \* calls made by the last mutating handler, in order; Off while not recorded
  isPlacingMode, \* state of the component: "Click-to-place" is on
  heightTo,      \* target scale of the last height animation started on each mesh, while recorded
  toCall         \* the last evaluation of updateHeight's target scale in the number format

vars == <<phase, bdata, tdata, bstore, tstore, selectedId, meshes, sceneDef,
          scene, obj, anims, timers, nextId, nBuilt, ops, foot, error, storageOk, camera, drawn,
          effects, isPlacingMode, heightTo, toCall>>

\* ------------------------------------------------- three layer manager
\* the manager together with the closures it has handed to the browser
World == [meshes |-> meshes, sceneDef |-> sceneDef, scene |-> scene, obj |-> obj,
          anims |-> anims, nBuilt |-> nBuilt, threw |-> FALSE]

AnimMeshes(as) == {as[i].mesh : i \in DOMAIN as}
Referenced(W) == {W.meshes[i] : i \in DOMAIN W.meshes} \cup W.scene \cup AnimMeshes(W.anims)

\* mesh objects nothing refers to any more are collected
SetWorld(W) ==
  /\ meshes' = W.meshes
  /\ sceneDef' = W.sceneDef
  /\ scene' = W.scene
  /\ obj' = Restrict(W.obj, Referenced(W) \cap DOMAIN W.obj)
  /\ anims' = W.anims
  /\ nBuilt' = W.nBuilt

\* extrusion depth of the geometry: depth = (h / meterToMerc) || h, then depth || 1
ExtrudeDepth(heightMeters) == IF heightMeters = 0 THEN 1 ELSE heightMeters

\* a mesh built with the default height 10 whatever the feature says
buildMeshFromPolygon_DefaultHeight(feature) ==
  [id |-> feature.id, depth |-> ExtrudeDepth(10),
   heightMeters |-> 10, scale |-> Exact(<<1, 1>>), overlapped |-> FALSE,
   color |-> feature.color, rotation |-> feature.rotation, disposed |-> FALSE]

\* rotation: the footprint the shape was built from, by the rotation of the
\* feature whose ring it was
\* disposed: geometry.dispose() and material.dispose() have been called
buildMeshFromPolygon(feature) ==
  [id |-> feature.id, depth |-> ExtrudeDepth(feature.height),
   heightMeters |-> feature.height, scale |-> Exact(<<1, 1>>), overlapped |-> FALSE,
   color |-> feature.color, rotation |-> feature.rotation, disposed |-> FALSE]

DropMesh(W, id) ==
  [W EXCEPT !.scene = @ \ {W.meshes[id]},
            !.meshes = Restrict(@, DOMAIN @ \ {id})]

\* addMeshForFeature without the replace step
addMeshForFeature_NoReplace(W, feature) ==
  LET id == feature.id
      h  == W.nBuilt + 1
      W2 == [W EXCEPT !.nBuilt = h]
  IN IF ~feature.valid
     THEN [W2 EXCEPT !.threw = TRUE]
     ELSE [W2 EXCEPT
             !.obj = (h :> [buildMeshFromPolygon(feature) EXCEPT !.scale = RiseFrom]) @@ @,
             !.scene = IF W2.sceneDef THEN @ \cup {h} ELSE @,
             !.meshes = (id :> h) @@ @,
             !.anims = Append(@, [mesh |-> h, kind |-> "rise", e |-> 0,
                                  from |-> RiseFrom, to |-> <<1, 1>>])]

addMeshForFeature(W, feature) ==
  LET id == feature.id
      W1 == IF id \in DOMAIN W.meshes THEN DropMesh(W, id) ELSE W
      h  == W1.nBuilt + 1
      W2 == [W1 EXCEPT !.nBuilt = h]
  IN IF ~feature.valid
     THEN [W2 EXCEPT !.threw = TRUE]
     ELSE [W2 EXCEPT
             !.obj = (h :> [buildMeshFromPolygon(feature) EXCEPT !.scale = RiseFrom]) @@ @,
             !.scene = IF W2.sceneDef THEN @ \cup {h} ELSE @,
             !.meshes = (id :> h) @@ @,
             !.anims = Append(@, [mesh |-> h, kind |-> "rise", e |-> 0,
                                  from |-> RiseFrom, to |-> <<1, 1>>])]

\* removeById that takes the mesh out of the scene only
removeById_SceneOnly(W, id) ==
  IF id \in DOMAIN W.meshes /\ W.sceneDef
  THEN [W EXCEPT !.scene = @ \ {W.meshes[id]}]
  ELSE W

removeById(W, id) ==
  IF id \in DOMAIN W.meshes /\ W.sceneDef THEN DropMesh(W, id) ELSE W

\* to = newH / (old || newH || 1)
TargetScale(old, newH) ==
  Rat(newH, IF old # 0 THEN old ELSE IF newH # 0 THEN newH ELSE 1)

\* updateHeight that builds a mesh for an id it does not find
updateHeight_Rebuild(W, id, heightMeters) ==
  IF id \notin DOMAIN W.meshes
  THEN addMeshForFeature(W, Building(id, heightMeters, 0, TRUE))
  ELSE LET h == W.meshes[id]
           m == W.obj[h]
       IN [W EXCEPT
             !.obj[h].heightMeters = heightMeters,
             !.obj[h].overlapped = @ \/ h \in AnimMeshes(W.anims),
             !.anims = Append(@, [mesh |-> h, kind |-> "height", e |-> 0,
                                  from |-> m.scale,
                                  to |-> TargetScale(m.heightMeters, heightMeters)])]

\* updateHeight that starts from where the pending height animation started
updateHeight_FromStart(W, id, heightMeters) ==
  IF id \notin DOMAIN W.meshes THEN W
  ELSE LET h == W.meshes[id]
           m == W.obj[h]
           P == {i \in DOMAIN W.anims : W.anims[i].mesh = h /\ W.anims[i].kind = "height"}
           start == IF P = {} THEN m.scale
                    ELSE W.anims[CHOOSE i \in P : \A j \in P : i >= j].from
       IN [W EXCEPT
             !.obj[h].heightMeters = heightMeters,
             !.obj[h].overlapped = @ \/ h \in AnimMeshes(W.anims),
             !.anims = Append(@, [mesh |-> h, kind |-> "height", e |-> 0,
                                  from |-> start,
                                  to |-> TargetScale(m.heightMeters, heightMeters)])]

updateHeight(W, id, heightMeters) ==
  IF id \notin DOMAIN W.meshes THEN W
  ELSE LET h == W.meshes[id]
           m == W.obj[h]
       IN [W EXCEPT
             !.obj[h].heightMeters = heightMeters,
             !.obj[h].overlapped = @ \/ h \in AnimMeshes(W.anims),
             !.anims = Append(@, [mesh |-> h, kind |-> "height", e |-> 0,
                                  from |-> m.scale,
                                  to |-> TargetScale(m.heightMeters, heightMeters)])]

\* a colour change that builds the mesh anew
setMaterialColor_Rebuild(W, id, color) ==
  IF id \in DOMAIN W.meshes
  THEN addMeshForFeature(W, [Building(id, W.obj[W.meshes[id]].heightMeters, 0, TRUE)
                               EXCEPT !.color = color])
  ELSE W

\* mesh = meshes.get(id); if (mesh) mesh.material.color = new THREE.Color(color)
setMaterialColor(W, id, color) ==
  IF id \in DOMAIN W.meshes THEN [W EXCEPT !.obj[W.meshes[id]].color = color] ELSE W

dispose_KeepsRenderer(W) ==
  [W EXCEPT !.scene = {}, !.meshes = <<>>]

dispose(W) ==
  [W EXCEPT !.scene = {}, !.meshes = <<>>, !.sceneDef = FALSE]

\* forEach(f => { try { addMeshForFeature(f) } catch {} })
RECURSIVE AddAll(_, _, _)
AddAll(W, fs, i) ==
  IF i > Len(fs) THEN W
  ELSE AddAll([addMeshForFeature(W, fs[i]) EXCEPT !.threw = FALSE], fs, i + 1)

\* meshes.forEach((m, id) => removeById(id))
RECURSIVE RemoveAll(_, _)
RemoveAll(W, S) ==
  IF S = {} THEN W
  ELSE LET id == CHOOSE x \in S : TRUE IN RemoveAll(removeById(W, id), S \ {id})

NoFoot == [fn |-> "none", args |-> <<>>, ring |-> <<>>]

\* record of the calls a handler makes to the source (setData), to
\* saveToStorage and to the mesh manager, in the order of the code
Off == <<"off">>
Trace(calls) == IF effects = Off THEN Off ELSE calls

\* the `to` of the height animation updateHeight has just started (W is the
\* manager it returned), filed under its mesh
NoteTo(W) ==
  IF effects = Off \/ Len(W.anims) = Len(anims) THEN heightTo
  ELSE LET a == W.anims[Len(W.anims)] IN (a.mesh :> a.to) @@ heightTo

ManagerCalls == {"addMeshForFeature", "removeById", "updateHeight"}
StoreCalls == {"setData", "saveToStorage"}

\* saveToStorage that writes nothing
saveToStorage_Skip(item, data) == item

\* saveToStorage: try { localStorage.setItem(key, JSON.stringify(data)) } catch {}
saveToStorage(item, data) == IF storageOk THEN data ELSE item

\* exportGeoJSON: the files it downloads, none when loadFromStorage(key) is
\* null.  The file is JSON.stringify of the parsed item, whose numbers and
\* strings JSON.parse reads back unchanged: a file is written as the
\* feature sequence it parses to
exportGeoJSON(item) == IF item.some THEN {item.features} ELSE {}

\* queryRenderedFeatures at the map centre: the map is never moved, so the
\* features put there by "Add at center" are the ones rendered at that point;
\* the features of the documents lie elsewhere
CenterHits == {id \in Ids(bdata) \cup Ids(tdata) : id < nextId}

\* ------------------------------------------------------------- Init
Init ==
  /\ phase = "init"
  /\ bdata = <<>>
  /\ tdata = <<>>
  /\ bstore \in {NoStore} \cup {Stored(d) : d \in BuildingDocs}
  /\ tstore = NoStore
  /\ selectedId = Null
  /\ meshes = <<>>
  /\ sceneDef = FALSE
  /\ scene = {}
  /\ obj = <<>>
  /\ anims = <<>>
  /\ timers = {}
  /\ nextId = 1
  /\ nBuilt = 0
  /\ ops = 0
  /\ foot = NoFoot
  /\ error = NoError
  /\ storageOk = TRUE
  /\ camera = CameraUndefined
  /\ drawn = NoDraw
  /\ effects = Off
  /\ isPlacingMode = FALSE
  /\ heightTo = <<>>
  /\ toCall = NoCall

\* ------------------------------------------------------------- actions
\* map "load" handler: sources from storage, manager created (onAdd runs
\* inside addLayer), one mesh per stored building
Load ==
  /\ phase = "init"
  /\ phase' = "ready"
  /\ bdata' = bstore.features
  /\ tdata' = tstore.features
  /\ SetWorld(AddAll([World EXCEPT !.sceneDef = TRUE], bstore.features, 1))
  /\ UNCHANGED <<bstore, tstore, selectedId, timers, nextId, ops>>
  /\ UNCHANGED foot
  /\ UNCHANGED error
  /\ UNCHANGED storageOk
  /\ camera' = IdentityMatrix
  /\ UNCHANGED drawn
  /\ UNCHANGED effects
  /\ UNCHANGED isPlacingMode
  /\ UNCHANGED heightTo
  /\ UNCHANGED toCall

\* appendBuildingFeature(feat, true)
appendBuildingFeature(feat, targetHeight) ==
  LET f == [feat EXCEPT !.height = 0]
      newData == Append(bdata, f)
      W == addMeshForFeature(World, f)
  IN /\ phase = "ready"
     /\ bdata' = newData
     /\ bstore' = saveToStorage(bstore, Stored(newData))
     /\ SetWorld(W)
     /\ timers' = IF W.threw THEN timers
                  ELSE timers \cup {[id |-> f.id, target |-> targetHeight, e |-> 0]}

\* "Add at center", building branch
AddBuildingAtCenter(h) ==
  /\ ops < MaxOps
  /\ ops' = ops + 1
  /\ appendBuildingFeature(Building(nextId, h, 0, TRUE), h)
  /\ nextId' = nextId + 1
  /\ UNCHANGED <<tdata, tstore, selectedId, phase>>
  /\ UNCHANGED foot
  /\ UNCHANGED error
  /\ UNCHANGED storageOk
  /\ UNCHANGED camera
  /\ UNCHANGED drawn
  /\ effects' = Trace(<<"setData", "saveToStorage", "addMeshForFeature">>)
  /\ UNCHANGED isPlacingMode
  /\ UNCHANGED heightTo
  /\ UNCHANGED toCall

\* "Add at center", building branch, with a width or depth typed so large
\* that the corners of the footprint lie beyond latitude 90, which
\* MercatorCoordinate.fromLngLat rejects: addMeshForFeature throws out of
\* appendBuildingFeature and out of the click handler
AddOversizedBuildingAtCenter(h) ==
  /\ ops < MaxOps
  /\ ops' = ops + 1
  /\ appendBuildingFeature(Building(nextId, h, 0, FALSE), h)
  /\ nextId' = nextId + 1
  /\ effects' = Trace(<<"setData", "saveToStorage", "addMeshForFeature">>)
  /\ UNCHANGED <<tdata, tstore, selectedId, phase, foot, error, storageOk, camera, drawn>>
  /\ UNCHANGED isPlacingMode
  /\ UNCHANGED heightTo
  /\ UNCHANGED toCall

\* closure of setTimeout(..., 450) in appendBuildingFeature
TimerFire(t) ==
  /\ t \in timers
  /\ t.e >= TimerDelay
  /\ timers' = timers \ {t}
  /\ SetWorld(updateHeight(World, t.id, t.target))
  /\ LET idx == FindIndex(bdata, t.id)
     IN IF phase = "ready" /\ idx # 0
        THEN /\ bdata' = [bdata EXCEPT ![idx].height = t.target]
             /\ bstore' = saveToStorage(bstore, Stored(bdata'))
        ELSE UNCHANGED <<bdata, bstore>>
  /\ UNCHANGED <<tdata, tstore, selectedId, phase, nextId, ops>>
  /\ UNCHANGED foot
  /\ UNCHANGED error
  /\ UNCHANGED storageOk
  /\ UNCHANGED camera
  /\ UNCHANGED drawn
  /\ effects' = Trace(IF phase = "ready" /\ FindIndex(bdata, t.id) # 0 THEN <<"updateHeight", "setData", "saveToStorage">> ELSE <<"updateHeight">>)
  /\ UNCHANGED isPlacingMode
  /\ heightTo' = NoteTo(updateHeight(World, t.id, t.target))
  /\ UNCHANGED toCall

\* every pending closure runs once, in registration order
RECURSIVE RunCallbacks(_, _, _)
RunCallbacks(as, i, o) ==
  IF i > Len(as) THEN o
  ELSE RunCallbacks(as, i + 1,
         [o EXCEPT ![as[i].mesh].scale = Interp(as[i].from, as[i].to, as[i].e, Dur(as[i].kind))])

Unfinished(a) == a.e < Dur(a.kind)

Elapse(e, limit) == Min(limit, e + TimeStep)

\* TimeStep ms pass, then the browser runs one animation frame
AnimationFrame ==
  /\ anims # <<>> \/ \E t \in timers : t.e < TimerDelay
  /\ LET due == [i \in DOMAIN anims |->
                   [anims[i] EXCEPT !.e = Elapse(@, Dur(anims[i].kind))]]
     IN SetWorld([World EXCEPT !.obj = RunCallbacks(due, 1, obj),
                               !.anims = SelectSeq(due, Unfinished)])
  /\ timers' = {[t EXCEPT !.e = Elapse(@, TimerDelay)] : t \in timers}
  /\ UNCHANGED <<phase, bdata, tdata, bstore, tstore, selectedId, nextId, ops>>
  /\ UNCHANGED foot
  /\ UNCHANGED error
  /\ UNCHANGED storageOk
  /\ UNCHANGED camera
  /\ UNCHANGED drawn
  /\ UNCHANGED effects
  /\ UNCHANGED isPlacingMode
  /\ UNCHANGED heightTo
  /\ UNCHANGED toCall

\* appendTreeFeature, from "Add at center", tree branch
AddTreeAtCenter(size) ==
  /\ phase = "ready"
  /\ ops < MaxOps
  /\ ops' = ops + 1
  /\ tdata' = Append(tdata, [id |-> nextId, size |-> size])
  /\ tstore' = saveToStorage(tstore, Stored(tdata'))
  /\ nextId' = nextId + 1
  /\ UNCHANGED <<phase, bdata, bstore, selectedId, meshes, sceneDef, scene, obj,
                 anims, timers, nBuilt>>
  /\ UNCHANGED foot
  /\ UNCHANGED error
  /\ UNCHANGED storageOk
  /\ UNCHANGED camera
  /\ UNCHANGED drawn
  /\ effects' = Trace(<<"setData", "saveToStorage">>)
  /\ UNCHANGED isPlacingMode
  /\ UNCHANGED heightTo
  /\ UNCHANGED toCall

\* map "click" handler; its closure holds isPlacingMode = false, the value at
\* mount, so only the selection branch runs.  hit: id of the top rendered
\* feature under the pointer, Null for none
MapClick(hit) ==
  /\ phase = "ready"
  /\ hit \in Ids(bdata) \cup Ids(tdata) \cup {Null}
  /\ hit # selectedId
  /\ selectedId' = hit
  /\ UNCHANGED <<phase, bdata, tdata, bstore, tstore, meshes, sceneDef, scene, obj,
                 anims, timers, nextId, nBuilt, ops>>
  /\ UNCHANGED foot
  /\ UNCHANGED error
  /\ UNCHANGED storageOk
  /\ UNCHANGED camera
  /\ UNCHANGED drawn
  /\ UNCHANGED effects
  /\ UNCHANGED isPlacingMode
  /\ UNCHANGED heightTo
  /\ UNCHANGED toCall

deleteSelected ==
  /\ phase = "ready"
  /\ ops < MaxOps
  /\ ops' = ops + 1
  /\ selectedId # Null
  /\ LET bi == FindIndex(bdata, selectedId)
         ti == FindIndex(tdata, selectedId)
     IN IF bi # 0
        THEN /\ SetWorld(removeById(World, selectedId))
             /\ bdata' = Splice(bdata, bi)
             /\ bstore' = saveToStorage(bstore, Stored(bdata'))
             /\ selectedId' = Null
             /\ UNCHANGED <<tdata, tstore>>
        ELSE /\ ti # 0
             /\ tdata' = Splice(tdata, ti)
             /\ tstore' = saveToStorage(tstore, Stored(tdata'))
             /\ selectedId' = Null
             /\ UNCHANGED <<bdata, bstore, meshes, sceneDef, scene, obj, anims, nBuilt>>
  /\ UNCHANGED <<phase, timers, nextId>>
  /\ UNCHANGED foot
  /\ UNCHANGED error
  /\ UNCHANGED storageOk
  /\ UNCHANGED camera
  /\ UNCHANGED drawn
  /\ effects' = Trace(IF FindIndex(bdata, selectedId) # 0 THEN <<"removeById", "setData", "saveToStorage">> ELSE <<"setData", "saveToStorage">>)
  /\ UNCHANGED isPlacingMode
  /\ UNCHANGED heightTo
  /\ UNCHANGED toCall

rotateSelectedBuilding(deltaDeg) ==
  /\ phase = "ready"
  /\ selectedId # Null
  /\ ops < MaxOps
  /\ ops' = ops + 1
  /\ LET idx == FindIndex(bdata, selectedId)
     IN /\ idx # 0
        /\ LET newRotation == JsRem(bdata[idx].rotation + deltaDeg, FullTurn)
               cur == [bdata EXCEPT ![idx].rotation = newRotation, ![idx].closed = TRUE]
           IN /\ bdata' = cur
              /\ bstore' = saveToStorage(bstore, Stored(cur))
              /\ SetWorld(addMeshForFeature(removeById(World, selectedId), cur[idx]))
  /\ UNCHANGED <<phase, tdata, tstore, selectedId, timers, nextId>>
  /\ UNCHANGED foot
  /\ UNCHANGED error
  /\ UNCHANGED storageOk
  /\ UNCHANGED camera
  /\ UNCHANGED drawn
  /\ effects' = Trace(<<"setData", "saveToStorage", "removeById", "addMeshForFeature">>)
  /\ UNCHANGED isPlacingMode
  /\ UNCHANGED heightTo
  /\ UNCHANGED toCall

\* updateSelectedBuildingProps({ height })
UpdateSelectedHeight(h) ==
  /\ phase = "ready"
  /\ selectedId # Null
  /\ ops < MaxOps
  /\ LET idx == FindIndex(bdata, selectedId)
     IN /\ idx # 0
        /\ bdata' = [bdata EXCEPT ![idx].height = h]
        /\ bstore' = saveToStorage(bstore, Stored(bdata'))
        /\ SetWorld(updateHeight(World, selectedId, h))
  /\ ops' = ops + 1
  /\ UNCHANGED <<phase, tdata, tstore, selectedId, timers, nextId>>
  /\ UNCHANGED foot
  /\ UNCHANGED error
  /\ UNCHANGED storageOk
  /\ UNCHANGED camera
  /\ UNCHANGED drawn
  /\ effects' = Trace(<<"setData", "saveToStorage", "updateHeight">>)
  /\ UNCHANGED isPlacingMode
  /\ heightTo' = NoteTo(updateHeight(World, selectedId, h))
  /\ UNCHANGED toCall

\* updateSelectedBuildingProps({ color })
UpdateSelectedColor(c) ==
  /\ phase = "ready"
  /\ selectedId # Null
  /\ ops < MaxOps
  /\ LET idx == FindIndex(bdata, selectedId)
     IN /\ idx # 0
        /\ bdata' = [bdata EXCEPT ![idx].color = c]
        /\ bstore' = saveToStorage(bstore, Stored(bdata'))
        /\ SetWorld(setMaterialColor(World, selectedId, c))
  /\ ops' = ops + 1
  /\ effects' = Trace(<<"setData", "saveToStorage">>)
  /\ UNCHANGED <<phase, tdata, tstore, selectedId, timers, nextId, foot, error,
                 storageOk, camera, drawn>>
  /\ UNCHANGED isPlacingMode
  /\ UNCHANGED heightTo
  /\ UNCHANGED toCall

\* updateSelectedBuildingProps({ content })
UpdateSelectedContent(text) ==
  /\ phase = "ready"
  /\ selectedId # Null
  /\ ops < MaxOps
  /\ LET idx == FindIndex(bdata, selectedId)
     IN /\ idx # 0
        /\ bdata' = [bdata EXCEPT ![idx].content = text]
        /\ bstore' = saveToStorage(bstore, Stored(bdata'))
  /\ ops' = ops + 1
  /\ effects' = Trace(<<"setData", "saveToStorage">>)
  /\ UNCHANGED <<phase, tdata, tstore, selectedId, meshes, sceneDef, scene, obj, anims,
                 timers, nextId, nBuilt, foot, error, storageOk, camera, drawn>>
  /\ UNCHANGED isPlacingMode
  /\ UNCHANGED heightTo
  /\ UNCHANGED toCall

\* importGeoJSON(file, USER_BUILDINGS_KEY, "user-buildings", ...), reader.onload
ImportBuildings(doc) ==
  /\ phase = "ready"
  /\ ops < MaxOps
  /\ ops' = ops + 1
  /\ bdata' = doc
  /\ bstore' = saveToStorage(bstore, Stored(doc))
  /\ SetWorld(AddAll(World, doc, 1))
  /\ UNCHANGED <<phase, tdata, tstore, selectedId, timers, nextId>>
  /\ UNCHANGED foot
  /\ error' = NoError
  /\ UNCHANGED storageOk
  /\ UNCHANGED camera
  /\ UNCHANGED drawn
  /\ effects' = Trace(<<"setData", "saveToStorage">> \o [i \in 1..Len(doc) |-> "addMeshForFeature"])
  /\ UNCHANGED isPlacingMode
  /\ UNCHANGED heightTo
  /\ UNCHANGED toCall

\* importGeoJSON(file, USER_TREES_KEY, "user-trees", ...), reader.onload
ImportTrees(doc) ==
  /\ phase = "ready"
  /\ ops < MaxOps
  /\ ops' = ops + 1
  /\ tdata' = doc
  /\ tstore' = saveToStorage(tstore, Stored(doc))
  /\ UNCHANGED <<phase, bdata, bstore, selectedId, meshes, sceneDef, scene, obj,
                 anims, timers, nextId, nBuilt>>
  /\ UNCHANGED foot
  /\ error' = NoError
  /\ UNCHANGED storageOk
  /\ UNCHANGED camera
  /\ UNCHANGED drawn
  /\ effects' = Trace(<<"setData", "saveToStorage">>)
  /\ UNCHANGED isPlacingMode
  /\ UNCHANGED heightTo
  /\ UNCHANGED toCall

\* importGeoJSON, reader.onload, for a file that is no feature collection.
\* JSON.parse throws on unparseable text before anything is touched.  The
\* parsed value null is given to setData and saveToStorage, then
\* parsed.features throws; a source whose _data is null is read as having
\* no features by every handler
ImportBad(kind, file) ==
  /\ phase = "ready"
  /\ ops < MaxOps
  /\ ops' = ops + 1
  /\ error' = InvalidGeoJSON
  /\ IF file = "null" /\ kind = "buildings"
     THEN bdata' = <<>> /\ bstore' = saveToStorage(bstore, NoStore)
     ELSE UNCHANGED <<bdata, bstore>>
  /\ IF file = "null" /\ kind = "trees"
     THEN tdata' = <<>> /\ tstore' = saveToStorage(tstore, NoStore)
     ELSE UNCHANGED <<tdata, tstore>>
  /\ UNCHANGED <<phase, selectedId, meshes, sceneDef, scene, obj, anims, timers,
                 nextId, nBuilt, foot>>
  /\ UNCHANGED storageOk
  /\ UNCHANGED camera
  /\ UNCHANGED drawn
  /\ effects' = Trace(IF file = "null" THEN <<"setData", "saveToStorage">> ELSE <<>>)
  /\ UNCHANGED isPlacingMode
  /\ UNCHANGED heightTo
  /\ UNCHANGED toCall

\* "Export Bldgs" / "Export Trees" buttons
Export(kind) ==
  /\ phase = "ready"
  /\ LET item == IF kind = "buildings" THEN bstore ELSE tstore
     IN error' = IF exportGeoJSON(item) = {} THEN NothingToExport ELSE error
  /\ UNCHANGED <<phase, bdata, tdata, bstore, tstore, selectedId, meshes, sceneDef,
                 scene, obj, anims, timers, nextId, nBuilt, ops, foot, storageOk>>
  /\ UNCHANGED camera
  /\ UNCHANGED drawn
  /\ UNCHANGED effects
  /\ UNCHANGED isPlacingMode
  /\ UNCHANGED heightTo
  /\ UNCHANGED toCall

\* "dismiss" link of the error banner
DismissError ==
  /\ phase = "ready"
  /\ error # NoError
  /\ error' = NoError
  /\ UNCHANGED <<phase, bdata, tdata, bstore, tstore, selectedId, meshes, sceneDef,
                 scene, obj, anims, timers, nextId, nBuilt, ops, foot>>
  /\ UNCHANGED storageOk
  /\ UNCHANGED camera
  /\ UNCHANGED drawn
  /\ UNCHANGED effects
  /\ UNCHANGED isPlacingMode
  /\ UNCHANGED heightTo
  /\ UNCHANGED toCall

\* "Clear Buildings" button
ClearBuildings ==
  /\ phase = "ready"
  /\ ops < MaxOps
  /\ ops' = ops + 1
  /\ bdata' = <<>>
  /\ bstore' = saveToStorage(bstore, Stored(<<>>))
  /\ SetWorld(RemoveAll(World, DOMAIN meshes))
  /\ UNCHANGED <<phase, tdata, tstore, selectedId, timers, nextId>>
  /\ UNCHANGED foot
  /\ UNCHANGED error
  /\ UNCHANGED storageOk
  /\ UNCHANGED camera
  /\ UNCHANGED drawn
  /\ effects' = Trace(<<"setData", "saveToStorage">> \o [i \in 1..Cardinality(DOMAIN meshes) |-> "removeById"])
  /\ UNCHANGED isPlacingMode
  /\ UNCHANGED heightTo
  /\ UNCHANGED toCall

\* "Clear Trees" button
ClearTrees ==
  /\ phase = "ready"
  /\ ops < MaxOps
  /\ ops' = ops + 1
  /\ tdata' = <<>>
  /\ tstore' = saveToStorage(tstore, Stored(<<>>))
  /\ UNCHANGED <<phase, bdata, bstore, selectedId, meshes, sceneDef, scene, obj,
                 anims, timers, nextId, nBuilt>>
  /\ UNCHANGED foot
  /\ UNCHANGED error
  /\ UNCHANGED storageOk
  /\ UNCHANGED camera
  /\ UNCHANGED drawn
  /\ effects' = Trace(<<"setData", "saveToStorage">>)
  /\ UNCHANGED isPlacingMode
  /\ UNCHANGED heightTo
  /\ UNCHANGED toCall

\* cleanup of the mount effect: manager disposed, map removed, map.current = null
Unmount ==
  /\ phase # "unmounted"
  /\ phase' = "unmounted"
  /\ SetWorld(dispose(World))
  /\ UNCHANGED <<bdata, tdata, bstore, tstore, selectedId, timers, nextId, ops>>
  /\ UNCHANGED foot
  /\ UNCHANGED error
  /\ UNCHANGED storageOk
  /\ camera' = CameraUndefined
  /\ UNCHANGED drawn
  /\ UNCHANGED effects
  /\ UNCHANGED isPlacingMode
  /\ UNCHANGED heightTo
  /\ UNCHANGED toCall

Next ==
  \/ Load
  \/ \E h \in PlaceHeights : AddBuildingAtCenter(h)
  \/ \E z \in TreeSizes : AddTreeAtCenter(z)
  \/ \E hit \in Ids(bdata) \cup Ids(tdata) \cup {Null} : MapClick(hit)
  \/ deleteSelected
  \/ \E d \in Deltas : rotateSelectedBuilding(d)
  \/ \E h \in UpdateHeights : UpdateSelectedHeight(h)
  \/ \E doc \in BuildingDocs \cup exportGeoJSON(bstore) : ImportBuildings(doc)
  \/ \E doc \in TreeDocs \cup exportGeoJSON(tstore) : ImportTrees(doc)
  \/ \E kind \in {"buildings", "trees"} : Export(kind)
  \/ \E kind \in {"buildings", "trees"}, file \in BadFiles : ImportBad(kind, file)
  \/ DismissError
  \/ ClearBuildings
  \/ ClearTrees
  \/ Unmount
  \/ \E t \in timers : TimerFire(t)
  \/ AnimationFrame

Spec == Init /\ [][Next]_vars

\* ------------------------------ the component with a failing localStorage
StorageFails ==
  /\ storageOk
  /\ storageOk' = FALSE
  /\ UNCHANGED <<phase, bdata, tdata, bstore, tstore, selectedId, meshes, sceneDef,
                 scene, obj, anims, timers, nextId, nBuilt, ops, foot, error>>
  /\ UNCHANGED camera
  /\ UNCHANGED drawn
  /\ UNCHANGED effects
  /\ UNCHANGED isPlacingMode
  /\ UNCHANGED heightTo
  /\ UNCHANGED toCall

StorageRecovers ==
  /\ ~storageOk
  /\ storageOk' = TRUE
  /\ UNCHANGED <<phase, bdata, tdata, bstore, tstore, selectedId, meshes, sceneDef,
                 scene, obj, anims, timers, nextId, nBuilt, ops, foot, error>>
  /\ UNCHANGED camera
  /\ UNCHANGED drawn
  /\ UNCHANGED effects
  /\ UNCHANGED isPlacingMode
  /\ UNCHANGED heightTo
  /\ UNCHANGED toCall

NextFault ==
  \/ Next
  \/ StorageFails
  \/ StorageRecovers

SpecFault == Init /\ [][NextFault]_vars

\* ------------- the component with the browser delivering its frame callbacks
\* the handlers that start the animations of the two kinds or take away the
\* mesh they animate; a requested animation frame is eventually run
NextLive ==
  \/ Load
  \/ \E h \in PlaceHeights : AddBuildingAtCenter(h)
  \/ \E hit \in Ids(bdata) \cup {Null} : MapClick(hit)
  \/ deleteSelected
  \/ \E h \in UpdateHeights : UpdateSelectedHeight(h)
  \/ Unmount
  \/ \E t \in timers : TimerFire(t)
  \/ AnimationFrame

\* nothing in localStorage at mount: every building is placed in the session
InitLive == Init /\ bstore = NoStore

SpecLive == InitLive /\ [][NextLive]_vars /\ WF_vars(AnimationFrame)

\* ------------------------------ the property panel of the selected building
NextProps ==
  \/ Load
  \/ \E h \in PlaceHeights : AddBuildingAtCenter(h)
  \/ \E hit \in Ids(bdata) \cup {Null} : MapClick(hit)
  \/ \E h \in UpdateHeights : UpdateSelectedHeight(h)
  \/ \E c \in Colors : UpdateSelectedColor(c)
  \/ \E text \in Contents : UpdateSelectedContent(text)
  \/ \E t \in timers : TimerFire(t)
  \/ AnimationFrame

SpecProps == Init /\ [][NextProps]_vars

\* ------------------------- the handlers when the source's setData throws
\* setData is taken to throw before it has any effect; a handler that has
\* written to src._data in place before the call has changed the store

\* "Add at center", building branch: the catch of appendBuildingFeature
AddBuildingSourceError(h) ==
  /\ phase = "ready"
  /\ ops < MaxOps
  /\ ops' = ops + 1
  /\ nextId' = nextId + 1
  /\ error' = FailedToAdd
  /\ effects' = Trace(<<"setData">>)
  /\ UNCHANGED <<phase, bdata, tdata, bstore, tstore, selectedId, meshes, sceneDef,
                 scene, obj, anims, timers, nBuilt, foot, storageOk, camera, drawn>>
  /\ UNCHANGED isPlacingMode
  /\ UNCHANGED heightTo
  /\ UNCHANGED toCall

\* deleteSelected: removeById and the splice of cur.features come before the
\* try; after the empty catch the trees are searched for the same id
deleteSelectedSourceError ==
  /\ phase = "ready"
  /\ ops < MaxOps
  /\ ops' = ops + 1
  /\ selectedId # Null
  /\ LET bi == FindIndex(bdata, selectedId)
         ti == FindIndex(tdata, selectedId)
     IN /\ bi # 0 \/ ti # 0
        /\ IF bi # 0
           THEN SetWorld(removeById(World, selectedId)) /\ bdata' = Splice(bdata, bi)
           ELSE UNCHANGED <<bdata, meshes, sceneDef, scene, obj, anims, nBuilt>>
        /\ tdata' = IF ti # 0 THEN Splice(tdata, ti) ELSE tdata
  /\ effects' = Trace(IF FindIndex(bdata, selectedId) # 0
                      THEN <<"removeById", "setData">> ELSE <<"setData">>)
  /\ UNCHANGED <<phase, bstore, tstore, selectedId, timers, nextId, foot, error,
                 storageOk, camera, drawn>>
  /\ UNCHANGED isPlacingMode
  /\ UNCHANGED heightTo
  /\ UNCHANGED toCall

\* rotateSelectedBuilding: geometry and rotation are written to the stored
\* feature before the try; the catch is empty
rotateSelectedSourceError(deltaDeg) ==
  /\ phase = "ready"
  /\ selectedId # Null
  /\ ops < MaxOps
  /\ ops' = ops + 1
  /\ LET idx == FindIndex(bdata, selectedId)
     IN /\ idx # 0
        /\ bdata' = [bdata EXCEPT ![idx].rotation = JsRem(@ + deltaDeg, FullTurn),
                                  ![idx].closed = TRUE]
  /\ effects' = Trace(<<"setData">>)
  /\ UNCHANGED <<phase, tdata, bstore, tstore, selectedId, meshes, sceneDef, scene, obj,
                 anims, timers, nextId, nBuilt, foot, error, storageOk, camera, drawn>>
  /\ UNCHANGED isPlacingMode
  /\ UNCHANGED heightTo
  /\ UNCHANGED toCall

\* updateSelectedBuildingProps({ height }): the properties are replaced
\* before setData, which is called outside any try
UpdateSelectedHeightSourceError(h) ==
  /\ phase = "ready"
  /\ selectedId # Null
  /\ ops < MaxOps
  /\ ops' = ops + 1
  /\ LET idx == FindIndex(bdata, selectedId)
     IN /\ idx # 0
        /\ bdata' = [bdata EXCEPT ![idx].height = h]
  /\ effects' = Trace(<<"setData">>)
  /\ UNCHANGED <<phase, tdata, bstore, tstore, selectedId, meshes, sceneDef, scene, obj,
                 anims, timers, nextId, nBuilt, foot, error, storageOk, camera, drawn>>
  /\ UNCHANGED isPlacingMode
  /\ UNCHANGED heightTo
  /\ UNCHANGED toCall

\* "Clear Buildings" button: the catch
ClearBuildingsSourceError ==
  /\ phase = "ready"
  /\ ops < MaxOps
  /\ ops' = ops + 1
  /\ error' = FailedClearing
  /\ effects' = Trace(<<"setData">>)
  /\ UNCHANGED <<phase, bdata, tdata, bstore, tstore, selectedId, meshes, sceneDef,
                 scene, obj, anims, timers, nextId, nBuilt, foot, storageOk, camera, drawn>>
  /\ UNCHANGED isPlacingMode
  /\ UNCHANGED heightTo
  /\ UNCHANGED toCall

NextSource ==
  \/ Next
  \/ \E h \in PlaceHeights : AddBuildingSourceError(h)
  \/ deleteSelectedSourceError
  \/ \E d \in Deltas : rotateSelectedSourceError(d)
  \/ \E h \in UpdateHeights : UpdateSelectedHeightSourceError(h)
  \/ ClearBuildingsSourceError

SpecSource == Init /\ [][NextSource]_vars

\* ------------------------------------- the component with "Click-to-place"
\* "Click-to-place" / "Stop Placing" button: setIsPlacingMode((s) => !s).
\* The click handler of the map was registered by the mount effect and
\* reads the isPlacingMode of that render, not this state
TogglePlacingMode ==
  /\ phase = "ready"
  /\ isPlacingMode' = ~isPlacingMode
  /\ UNCHANGED <<phase, bdata, tdata, bstore, tstore, selectedId, meshes, sceneDef,
                 scene, obj, anims, timers, nextId, nBuilt, ops, foot, error, storageOk,
                 camera, drawn, effects, heightTo>>
  /\ UNCHANGED toCall

NextPlacing ==
  \/ Next
  \/ TogglePlacingMode

SpecPlacing == Init /\ [][NextPlacing]_vars

\* ------------------- the component given documents and values of any content
NextInputs ==
  \/ Next
  \/ \E doc \in RepeatedIdDocs \cup NegativeHeightDocs \cup OpenRingDocs : ImportBuildings(doc)
  \/ \E h \in NegativeHeights : UpdateSelectedHeight(h)
  \/ \E h \in PlaceHeights : AddOversizedBuildingAtCenter(h)
  \/ \E doc \in CollidingTreeDocs : ImportTrees(doc)

SpecInputs == Init /\ [][NextInputs]_vars

\* ------------------------------------------- the render callback of the layer
\* customLayer.render(gl, matrix): nothing without renderer, scene and camera;
\* else the matrix becomes the camera's projection matrix and the scene is
\* rendered with the camera
\* render that draws before it assigns the matrix
render_Stale(cam, matrix) ==
  [camera |-> matrix, drawn |-> [supplied |-> matrix, before |-> cam, used |-> cam]]

render(cam, matrix) ==
  LET cam1 == matrix
  IN [camera |-> cam1, drawn |-> [supplied |-> matrix, before |-> cam, used |-> cam1]]

Render(matrix) ==
  /\ IF sceneDef
     THEN /\ camera' = render(camera, matrix).camera
          /\ drawn' = render(camera, matrix).drawn
     ELSE UNCHANGED <<camera, drawn>>
  /\ UNCHANGED <<phase, bdata, tdata, bstore, tstore, selectedId, meshes, sceneDef,
                 scene, obj, anims, timers, nextId, nBuilt, ops, foot, error, storageOk>>
  /\ UNCHANGED effects
  /\ UNCHANGED isPlacingMode
  /\ UNCHANGED heightTo
  /\ UNCHANGED toCall

NextRender ==
  \/ Load
  \/ \E hit \in Ids(bdata) \cup Ids(tdata) \cup {Null} : MapClick(hit)
  \/ AnimationFrame
  \/ \E m \in Matrices : Render(m)
  \/ Unmount

SpecRender == Init /\ [][NextRender]_vars

\* ------------------------------- the component with its calls being recorded
StartTracing ==
  /\ effects = Off
  /\ effects' = <<>>
  /\ UNCHANGED <<phase, bdata, tdata, bstore, tstore, selectedId, meshes, sceneDef,
                 scene, obj, anims, timers, nextId, nBuilt, ops, foot, error, storageOk,
                 camera, drawn>>
  /\ UNCHANGED isPlacingMode
  /\ UNCHANGED heightTo
  /\ UNCHANGED toCall

NextOrder ==
  \/ Next
  \/ StartTracing

SpecOrder == Init /\ [][NextOrder]_vars

\* ---------------------------------------- the footprint generator alone
mainVars == <<phase, bdata, tdata, bstore, tstore, selectedId, meshes, sceneDef,
              scene, obj, anims, timers, nextId, nBuilt, ops>>

GenRectangle(c, w, d, rot) ==
  /\ foot' = [fn |-> "rectangle", args |-> <<c[1], c[2], w, d, rot>>,
              ring |-> rectanglePolygonAround(c[1], c[2], w, d, rot)]
  /\ UNCHANGED mainVars
  /\ UNCHANGED error
  /\ UNCHANGED storageOk
  /\ UNCHANGED camera
  /\ UNCHANGED drawn
  /\ UNCHANGED effects
  /\ UNCHANGED isPlacingMode
  /\ UNCHANGED heightTo
  /\ UNCHANGED toCall

GenCircle(c, r, n) ==
  /\ foot' = [fn |-> "circle", args |-> <<c[1], c[2], r, n>>,
              ring |-> circlePolygonAround(c[1], c[2], r, n)]
  /\ UNCHANGED mainVars
  /\ UNCHANGED error
  /\ UNCHANGED storageOk
  /\ UNCHANGED camera
  /\ UNCHANGED drawn
  /\ UNCHANGED effects
  /\ UNCHANGED isPlacingMode
  /\ UNCHANGED heightTo
  /\ UNCHANGED toCall

InitFoot == Init /\ bstore = NoStore

NextFoot ==
  \/ \E c \in Centers, w \in Widths, d \in Depths, rot \in Rotations : GenRectangle(c, w, d, rot)
  \/ \E c \in Centers, r \in Radii, n \in Segments : GenCircle(c, r, n)

SpecFoot == InitFoot /\ [][NextFoot]_vars

\* --------------------------------------------- footprint of a rotation
\* useState(12) of the width and depth fields, in millimetres
BuildingWidth == 12000
BuildingDepth == 12000

\* rings MapboxDraw hands to draw.create: a triangle and an L-shape, closed
DrawnRings ==
  { << <<0, 0>>, <<1000, 0>>, <<0, 1500>>, <<0, 0>> >>,
    << <<0, 0>>, <<2000, 0>>, <<2000, 1000>>, <<1000, 1000>>, <<1000, 3000>>,
       <<0, 3000>>, <<0, 0>> >> }

\* sum of coordinate k of the points, taken as offsets from the first point
\* so that the sum stays within the integers of the checker; the average
\* of the offsets added to the first point is the average of the points
RECURSIVE SumCoord(_, _, _)
SumCoord(pts, k, i) ==
  IF i > Len(pts) THEN 0 ELSE (pts[i][k] - pts[1][k]) + SumCoord(pts, k, i + 1)

\* the average taken over every element of the ring, closing point included
polygonCentroid_AllPoints(coords) ==
  <<coords[1][1] + Quot(SumCoord(coords, 1, 1), Len(coords)),
    coords[1][2] + Quot(SumCoord(coords, 2, 1), Len(coords))>>

polygonCentroid(coords) ==
  LET pts == SubSeq(coords, 1, Len(coords) - 1)
  IN <<pts[1][1] + Quot(SumCoord(pts, 1, 1), Len(pts)),
       pts[1][2] + Quot(SumCoord(pts, 2, 1), Len(pts))>>

polygonBBox(coords) ==
  LET lngs == {coords[i][1] : i \in DOMAIN coords}
      lats == {coords[i][2] : i \in DOMAIN coords}
  IN [minLng |-> CHOOSE x \in lngs : \A y \in lngs : x <= y,
      minLat |-> CHOOSE x \in lats : \A y \in lats : x <= y,
      maxLng |-> CHOOSE x \in lngs : \A y \in lngs : x >= y,
      maxLat |-> CHOOSE x \in lats : \A y \in lats : x >= y]

\* the geometry rotateSelectedBuilding computes from the ring poly of a
\* feature whose properties.rotation is oldRotation
RotatedFootprint(poly, oldRotation, deltaDeg) ==
  LET centroid == polygonCentroid(poly)
      newRotation == JsRem(oldRotation + deltaDeg, FullTurn)
      bbox == polygonBBox(poly)
      widthMeters == Abs(Quot((bbox.maxLng - bbox.minLng)
                                * Quot(MetersPerDegree * CosLatMilli(centroid[2]), 1000), 10000))
      depthMeters == Abs(Quot((bbox.maxLat - bbox.minLat) * MetersPerDegree, 10000))
      w == IF widthMeters # 0 THEN widthMeters ELSE BuildingWidth
      d == IF depthMeters # 0 THEN depthMeters ELSE BuildingDepth
  IN [fn |-> "rotate", args |-> <<centroid[1], centroid[2], w, d, newRotation>>,
      ring |-> rectanglePolygonAround(centroid[1], centroid[2], w, d, newRotation),
      from |-> poly]

\* draw.create with a drawn polygon
GenDrawn(ring) ==
  /\ foot' = [fn |-> "drawn", args |-> <<>>, ring |-> ring]
  /\ UNCHANGED mainVars
  /\ UNCHANGED <<error, storageOk, camera, drawn, effects, isPlacingMode, heightTo, toCall>>

\* rotateSelectedBuilding on a feature that has the generated ring; a placed
\* or drawn feature has rotation 0, a rectangle made by an earlier rotation
\* has the rotation it was generated with
RotateFoot(deltaDeg) ==
  /\ foot.fn # "none"
  /\ Len(foot.ring) >= 2
  /\ \A i \in DOMAIN foot.ring : Len(foot.ring[i]) = 2
  /\ ops < MaxOps
  /\ ops' = ops + 1
  /\ foot' = RotatedFootprint(foot.ring,
                              IF foot.fn \in {"rectangle", "rotate"} THEN foot.args[5] ELSE 0,
                              deltaDeg)
  /\ UNCHANGED <<phase, bdata, tdata, bstore, tstore, selectedId, meshes, sceneDef,
                 scene, obj, anims, timers, nextId, nBuilt>>
  /\ UNCHANGED <<error, storageOk, camera, drawn, effects, isPlacingMode, heightTo, toCall>>

\* one ring is generated or drawn, then rotated
NextRotate ==
  \/ foot = NoFoot /\ NextFoot
  \/ foot = NoFoot /\ \E ring \in DrawnRings : GenDrawn(ring)
  \/ \E d \in Deltas : RotateFoot(d)
  \/ Load
  \/ \E hit \in Ids(bdata) \cup Ids(tdata) \cup {Null} : MapClick(hit)
  \/ \E d \in Deltas : rotateSelectedBuilding(d)

SpecRotate == Init /\ [][NextRotate]_vars

\* ------------------------------------------ target scale of updateHeight
\* updateHeight computing its target scale for a mesh whose recorded height
\* is old and a new height newH
ComputeTo(old, newH) ==
  /\ toCall' = [old |-> old, newH |-> newH, to |-> TargetScaleFloat(old, newH)]
  /\ UNCHANGED mainVars
  /\ UNCHANGED <<foot, error, storageOk, camera, drawn, effects, isPlacingMode, heightTo>>

NextScale == \E old \in Heights, newH \in Heights : ComputeTo(old, newH)

SpecScale == Init /\ [][NextScale]_vars

\* ------------------------------------------------------------- claims
Range(f) == {f[x] : x \in DOMAIN f}

\* the meshes the manager holds: indexed or children of the scene
Held == Range(meshes) \cup scene

\* C1: the mesh index and the scene together hold at most one mesh per
\* feature id, every indexed mesh is filed under its own feature id, and
\* a mesh that was replaced is in neither of them.
C1_OneMeshPerId ==
  /\ \A a \in Held, b \in Held : obj[a].id = obj[b].id => a = b
  /\ \A id \in DOMAIN meshes : obj[meshes[id]].id = id

\* C1 witness: building 11 was imported over itself as the only operation;
\* its first mesh (still the target of its rise animation) has been
\* replaced by a second one.
C1_Replaced ==
  /\ ops = 1
  /\ 11 \in DOMAIN meshes
  /\ bdata = <<Building(11, 10, 0, TRUE)>>
  /\ \E h \in DOMAIN obj : obj[h].id = 11 /\ h \notin Held /\ meshes[11] # h

\* C2: every key of the mesh index is the id of a building feature that
\* is present in the building store.
C2_NoDanglingMesh == DOMAIN meshes \subseteq Ids(bdata)

\* C3: when deleteSelected has returned, no animation closure of the
\* deleted feature's mesh is left to run in a later frame.
C3_DeleteCancelsAnimation ==
  [][deleteSelected =>
       \A i \in DOMAIN anims' : obj'[anims'[i].mesh].id # selectedId]_vars

\* a building id is gone from the store, the persisted snapshot and the index
Gone(id) ==
  /\ id \notin Ids(bdata)
  /\ id \notin Ids(bstore.features)
  /\ id \notin DOMAIN meshes

\* C4: deleting a building placed in this session leaves the store, the
\* persisted snapshot and the mesh index without its id, and no later
\* step (the deferred height timer included) brings the id back.
C4_PlaceDeleteGone ==
  [][\A id \in 1..(nextId - 1) :
       /\ (deleteSelected /\ selectedId = id /\ id \in Ids(bdata)) => Gone(id)'
       /\ Gone(id) => Gone(id)']_vars

\* C4 witness: a placed building was deleted before its timer fired (its
\* mesh never got the target height), and the timer has fired since.
C4_TimerFiredAfterDelete ==
  /\ phase = "ready"
  /\ timers = {}
  /\ \E h \in DOMAIN obj :
       /\ obj[h].id < nextId
       /\ obj[h].heightMeters = 0
       /\ Gone(obj[h].id)

AtRest(h) == \A i \in DOMAIN anims : anims[i].mesh # h

\* C5: a mesh whose animations have all completed, none of them started
\* while another was running, has effective height (extrusion depth of
\* its geometry times its scale) equal to the stored height of its feature.
C5_EffectiveHeight ==
  \A id \in DOMAIN meshes \cap Ids(bdata) :
    LET m == obj[meshes[id]]
        f == bdata[FindIndex(bdata, id)]
    IN (AtRest(meshes[id]) /\ ~m.overlapped)
         => /\ m.scale.path = <<>>
            /\ m.depth * m.scale.base[1] = f.height * m.scale.base[2]

\* C6: no two pending animation closures have the same feature id and
\* the same kind.
C6_OneTaskPerKind ==
  \A i \in DOMAIN anims, j \in DOMAIN anims :
    (obj[anims[i].mesh].id = obj[anims[j].mesh].id /\ anims[i].kind = anims[j].kind)
      => i = j

\* C7: a height animation started while a height animation of the same
\* mesh is pending starts from the value the mesh has at that instant.
C7_FromCurrentValue ==
  [][LET n == Len(anims')
     IN (/\ n = Len(anims) + 1
         /\ SubSeq(anims', 1, n - 1) = anims
         /\ anims'[n].kind = "height"
         /\ \E i \in DOMAIN anims :
              anims[i].kind = "height" /\ anims[i].mesh = anims'[n].mesh)
          => anims'[n].from = obj[anims'[n].mesh].scale]_vars

\* C7 witness: two pending height animations of one mesh, the later one
\* starting from an interpolated value, not from the start of the earlier.
C7_Superseded ==
  \E i \in DOMAIN anims, j \in DOMAIN anims :
    /\ i < j
    /\ anims[i].kind = "height" /\ anims[j].kind = "height"
    /\ anims[i].mesh = anims[j].mesh
    /\ anims[j].from.path # <<>>
    /\ anims[j].from # anims[i].from

\* C8: every stored rotation lies in [0, 360).
C8_RotationInRange ==
  \A i \in DOMAIN bdata : bdata[i].rotation \in 0..(FullTurn - 1)

\* C9: every ring the footprint generator returns is closed.
C9_RingClosed ==
  foot.fn # "none" =>
    /\ Len(foot.ring) >= 1
    /\ foot.ring[1] = foot.ring[Len(foot.ring)]

\* C9 witness: a rotated rectangle around London, four distinct corners
\* and the closing point.
C9_RotatedRectangle ==
  /\ foot.fn = "rectangle"
  /\ foot.args = <<-1276000, 515072000, 12000, 12000, 15>>
  /\ Len(foot.ring) = 5
  /\ Cardinality(Range(foot.ring)) = 4
  /\ foot.ring[5] = foot.ring[1]

\* C10: when the deferred height application of a placement has run, the
\* placed feature, if still in the persisted snapshot, has the configured
\* height there.
C10_StoredHeight ==
  [][\A t \in timers :
       (TimerFire(t) /\ t.id \in Ids(bstore.features))
         => bstore'.features[FindIndex(bstore'.features, t.id)].height = t.target]_vars

IsPosition(p) == Len(p) = 2

\* C11: rectanglePolygonAround returns 5 positions, four distinct corners
\* in order around the centre (opposite corners mirror each other in the
\* centre; unrotated, the first is the south-west and the second the
\* south-east corner) followed by a copy of the first; circlePolygonAround
\* with segment count n returns n + 1 elements, all positions when n >= 1.
C11_RingLength ==
  /\ foot.fn = "rectangle" =>
       LET r == foot.ring
           lng == foot.args[1]
           lat == foot.args[2]
       IN /\ Len(r) = 5
          /\ \A i \in 1..5 : IsPosition(r[i])
          /\ Cardinality({r[i] : i \in 1..4}) = 4
          /\ r[5] = r[1]
          /\ r[1][1] + r[3][1] = 2 * lng /\ r[1][2] + r[3][2] = 2 * lat
          /\ r[2][1] + r[4][1] = 2 * lng /\ r[2][2] + r[4][2] = 2 * lat
          /\ foot.args[5] = 0 =>
               /\ r[1][1] < lng /\ r[1][2] < lat
               /\ r[2][1] > lng /\ r[2][2] < lat
  /\ foot.fn = "circle" =>
       /\ Len(foot.ring) = foot.args[4] + 1
       /\ foot.args[4] >= 1 => \A i \in DOMAIN foot.ring : IsPosition(foot.ring[i])

\* C11 witness: a circle of 24 segments, 24 distinct points and the closing one.
C11_Circle24 ==
  /\ foot.fn = "circle"
  /\ foot.args[4] = 24
  /\ Len(foot.ring) = 25
  /\ Cardinality(Range(foot.ring)) = 24

\* C12: a placement at a point where the occupancy query returns a hit is
\* rejected with an error and leaves the stores, the persisted snapshots
\* and the mesh index as they were.
C12_OccupiedRejected ==
  [][(/\ CenterHits # {}
      /\ \/ \E h \in PlaceHeights : AddBuildingAtCenter(h)
         \/ \E z \in TreeSizes : AddTreeAtCenter(z))
       => /\ error' # NoError
          /\ UNCHANGED <<bdata, tdata, bstore, tstore, meshes>>]_vars

\* C13: an import that reports 'Invalid GeoJSON' leaves the store of its
\* kind, the persisted snapshot and the mesh index as they were.
C13_FailedImportUntouched ==
  [][\A file \in BadFiles :
       (ImportBad("buildings", file) /\ error' = InvalidGeoJSON)
         => UNCHANGED <<bdata, bstore, meshes>>]_vars

\* C14: after a successful import of a buildings document whose features
\* all have a constructible mesh, the building store equals the imported
\* collection and the mesh index holds exactly the imported ids.
C14_ImportRebuildsIndex ==
  [][\A doc \in BuildingDocs :
       (ImportBuildings(doc) /\ \A i \in DOMAIN doc : doc[i].valid)
         => /\ bdata' = doc
            /\ DOMAIN meshes' = Ids(doc)]_vars

\* two collections have the same ids and, id by id, the same properties
SameFeatures(a, b) ==
  /\ Ids(a) = Ids(b)
  /\ \A i \in DOMAIN a, j \in DOMAIN b : a[i].id = b[j].id => a[i] = b[j]

\* C15: importing the file that an export of the same kind has just
\* produced leaves that kind's store with the ids and properties it had.
C15_RoundTrip ==
  [][/\ \A doc \in exportGeoJSON(bstore) :
          ImportBuildings(doc) => SameFeatures(bdata', bdata)
     /\ \A doc \in exportGeoJSON(tstore) :
          ImportTrees(doc) => SameFeatures(tdata', tdata)]_vars

\* C16: while the component is mounted, a file that an export produces is
\* the in-memory collection of its kind.
C16_ExportIsMemory ==
  phase = "ready" =>
    /\ \A doc \in exportGeoJSON(bstore) : doc = bdata
    /\ \A doc \in exportGeoJSON(tstore) : doc = tdata

\* the operations that write a snapshot: add, update, rotate, delete, import, clear
Mutation ==
  \/ \E h \in PlaceHeights : AddBuildingAtCenter(h)
  \/ \E z \in TreeSizes : AddTreeAtCenter(z)
  \/ deleteSelected
  \/ \E d \in Deltas : rotateSelectedBuilding(d)
  \/ \E h \in UpdateHeights : UpdateSelectedHeight(h)
  \/ \E doc \in BuildingDocs \cup exportGeoJSON(bstore) : ImportBuildings(doc)
  \/ \E doc \in TreeDocs \cup exportGeoJSON(tstore) : ImportTrees(doc)
  \/ ClearBuildings
  \/ ClearTrees

\* C17: an operation whose persistence write fails leaves a warning in the
\* error banner (a message of its own, none of the other failures').
C17_WriteFailureSurfaced ==
  [][(Mutation /\ ~storageOk)
       => error' \notin {NoError, InvalidGeoJSON, NothingToExport}]_vars

\* C18: the scene is rendered with the projection matrix the host supplied
\* to that same tick.
C18_CurrentMatrix == drawn # NoDraw => drawn.used = drawn.supplied

\* C18 witness: a tick rendered with its own matrix although the camera
\* still held the matrix of an earlier tick when it began.
C18_SecondTick ==
  /\ drawn.before \in Matrices
  /\ drawn.before # drawn.supplied
  /\ drawn.used = drawn.supplied
  /\ camera = drawn.supplied

\* C19: the animated value of a mesh changes only in a step that is a
\* render tick.
C19_AdvancedByRenderOnly ==
  [][(\E h \in DOMAIN obj \cap DOMAIN obj' : obj'[h].scale # obj[h].scale)
       => \E m \in Matrices : Render(m)]_vars

\* C20: in every mutating handler the source update and the persistence
\* write come before every call to the mesh manager.
C20_StoreBeforeMesh ==
  effects # Off =>
    \A i \in DOMAIN effects, j \in DOMAIN effects :
      (effects[i] \in ManagerCalls /\ effects[j] \in StoreCalls) => j < i

\* C21: the ids of the features in a store are pairwise different.
C21_UniqueIds ==
  /\ \A i \in DOMAIN bdata, j \in DOMAIN bdata : bdata[i].id = bdata[j].id => i = j
  /\ \A i \in DOMAIN tdata, j \in DOMAIN tdata : tdata[i].id = tdata[j].id => i = j

\* C22: every stored building has a height >= 0 and a closed ring.
C22_ValidStored ==
  \A i \in DOMAIN bdata : bdata[i].height >= 0 /\ bdata[i].closed

\* C23: circlePolygonAround called with fewer than 3 segments returns no
\* ring.
C23_FewSegmentsNoRing ==
  (foot.fn = "circle" /\ foot.args[4] < 3) => Len(foot.ring) = 0

\* C24: in a frame every pending animation closure runs with a later time
\* than before; one that has not reached t = 1 is left pending exactly
\* once, one that has is not pending any more and has set the scale of
\* its mesh to its target value (which stands unless a closure of the
\* same mesh registered later ran after it in this frame); and the
\* pending animations always run out.
C24_AnimationTerminates ==
  /\ [][AnimationFrame =>
         LET now(i) == Elapse(anims[i].e, Dur(anims[i].kind))
             done(i) == now(i) >= Dur(anims[i].kind)
             kept == {i \in DOMAIN anims : ~done(i)}
         IN /\ \A i \in DOMAIN anims : anims[i].e < now(i)
            /\ Len(anims') = Cardinality(kept)
            /\ \A i \in kept :
                 Cardinality({j \in DOMAIN anims' :
                                anims'[j] = [anims[i] EXCEPT !.e = now(i)]}) >= 1
            /\ \A i \in DOMAIN anims \ kept :
                 (/\ anims[i].mesh \in DOMAIN obj'
                  /\ \A j \in DOMAIN anims : j > i => anims[j].mesh # anims[i].mesh)
                   => obj'[anims[i].mesh].scale = Exact(anims[i].to)]_vars
  /\ (anims # <<>>) ~> (anims = <<>>)

\* C24 witness: the last pending animation, a height animation, has
\* completed and left its mesh at the target scale 5/2.
C24_HeightCompleted ==
  /\ anims = <<>>
  /\ \E h \in DOMAIN obj : obj[h].scale = Exact(<<5, 2>>)

\* C25: an update of the colour or of the content of the selected building
\* changes that property of the stored and persisted feature and nothing
\* else in the store; the mesh index, the scene and the animations stay as
\* they are, and the mesh of the building, if it has one, is the same
\* instance with the same geometry and scale, its material having the new
\* colour after a colour change.
C25_ColorInPlace ==
  [][\A id \in Ids(bdata) :
       LET idx == FindIndex(bdata, id)
           same == /\ meshes' = meshes /\ scene' = scene /\ anims' = anims
                   /\ nBuilt' = nBuilt /\ DOMAIN obj' = DOMAIN obj
                   /\ bstore' = Stored(bdata')
       IN /\ \A c \in Colors :
               (UpdateSelectedColor(c) /\ selectedId = id) =>
                 /\ bdata' = [bdata EXCEPT ![idx].color = c]
                 /\ same
                 /\ \A h \in DOMAIN obj :
                      obj'[h] = IF id \in DOMAIN meshes /\ h = meshes[id]
                                THEN [obj[h] EXCEPT !.color = c] ELSE obj[h]
          /\ \A text \in Contents :
               (UpdateSelectedContent(text) /\ selectedId = id) =>
                 /\ bdata' = [bdata EXCEPT ![idx].content = text]
                 /\ same
                 /\ obj' = obj]_vars

\* C25 witness: the building placed in the session got a new colour while
\* its rise animation was running; its only mesh has the colour and is
\* still rising.
C25_RecoloredWhileRising ==
  /\ nBuilt = 1
  /\ \E i \in DOMAIN bdata :
       /\ bdata[i].color \in Colors
       /\ bdata[i].id \in DOMAIN meshes
       /\ obj[meshes[bdata[i].id]].color = bdata[i].color
       /\ \E k \in DOMAIN anims :
            anims[k].mesh = meshes[bdata[i].id] /\ anims[k].kind = "rise" /\ anims[k].e > 0

\* C26: a stored building whose mesh cannot be constructed has no entry in
\* the mesh index and no mesh in the scene, and its stored height is the
\* configured one, not the 0 a placement stores until its deferred height
\* application has run.
C26_FailedMeshKeepsData ==
  \A i \in DOMAIN bdata :
    ~bdata[i].valid =>
      /\ bdata[i].id \notin DOMAIN meshes
      /\ \A h \in scene : obj[h].id # bdata[i].id
      /\ (\A t \in timers : t.id # bdata[i].id) => bdata[i].height # 0

\* C27: after a rotation of a building that has a mesh (and whose ring
\* can be meshed) the mesh it had is neither in the index nor in the
\* scene, and the index holds for its id a new mesh, the only mesh of
\* that id in the scene, built from the rotated footprint and from the
\* height stored at that moment.
C27_RotateRebuilds ==
  [][\A id \in DOMAIN meshes, d \in Deltas :
       LET idx == FindIndex(bdata, id)
           old == meshes[id]
       IN (rotateSelectedBuilding(d) /\ selectedId = id /\ bdata[idx].valid) =>
            /\ old \notin scene'
            /\ \A k \in DOMAIN meshes' : meshes'[k] # old
            /\ id \in DOMAIN meshes'
            /\ {h \in scene' : obj'[h].id = id} = {meshes'[id]}
            /\ obj'[meshes'[id]].rotation = JsRem(bdata[idx].rotation + d, FullTurn)
            /\ obj'[meshes'[id]].rotation = bdata'[idx].rotation
            /\ obj'[meshes'[id]].heightMeters = bdata[idx].height
            /\ obj'[meshes'[id]].depth = ExtrudeDepth(bdata[idx].height)]_vars

\* C27 witness: building 12 (height 30) was rotated by 15 degrees while
\* rising; the mesh it had, built unrotated, is held no more but still
\* animated, and its mesh now is built from the rotated footprint.
C27_RotatedWhileRising ==
  /\ 12 \in DOMAIN meshes
  /\ obj[meshes[12]].rotation = 15
  /\ obj[meshes[12]].heightMeters = 30
  /\ \E h \in AnimMeshes(anims) \ Held : obj[h].id = 12 /\ obj[h].rotation = 0

\* C28: in every state of the manager, removeById(id) for an indexed id
\* returns with the mesh in neither the index nor the scene and with its
\* geometry and material disposed.
C28_RemoveDisposes ==
  \A id \in DOMAIN meshes :
    LET W == removeById(World, id)
    IN /\ id \notin DOMAIN W.meshes
       /\ meshes[id] \notin W.scene
       /\ W.obj[meshes[id]].disposed

\* C29: a place, delete, rotate, height update or clear during which
\* setData throws leaves the stores, the persisted snapshots, the mesh
\* index and the scene as they were.
C29_AllOrNothing ==
  [][(\/ \E h \in PlaceHeights : AddBuildingSourceError(h)
      \/ deleteSelectedSourceError
      \/ \E d \in Deltas : rotateSelectedSourceError(d)
      \/ \E h \in UpdateHeights : UpdateSelectedHeightSourceError(h)
      \/ ClearBuildingsSourceError)
       => UNCHANGED <<bdata, tdata, bstore, tstore, meshes, scene>>]_vars

\* C30: the deferred height application of a placement leaves a height
\* that an update has given its building since (the stored height is no
\* longer the 0 of the placement) as it is, in the store and in the
\* persisted snapshot.
C30_TimerKeepsUserHeight ==
  [][\A t \in timers :
       LET idx == FindIndex(bdata, t.id)
       IN (TimerFire(t) /\ idx # 0 /\ bdata[idx].height \in UpdateHeights)
            => /\ bdata'[idx].height = bdata[idx].height
               /\ bstore'.features[idx].height = bdata[idx].height]_vars

\* C31: the deferred height callback of a placement that fires when its
\* building is no longer stored (deleted, cleared, replaced by an import)
\* or when the component is unmounted, and every animation frame, those
\* of meshes no longer held included, leave the stores, the persisted
\* snapshots and the mesh index as they are.
C31_LateCallbacksHarmless ==
  [][/\ \A t \in timers :
          (TimerFire(t) /\ (t.id \notin Ids(bdata) \/ phase = "unmounted"))
            => UNCHANGED <<bdata, tdata, bstore, tstore, meshes>>
     /\ AnimationFrame => UNCHANGED <<bdata, tdata, bstore, tstore, meshes>>]_vars

\* C31 witness: the component is unmounted, the deferred callback of a
\* building placed in the session has fired since (no timer is left and
\* the stored height is still the 0 of the placement), and the closures
\* of its mesh have run to their end.
C31_TimerFiredAfterUnmount ==
  /\ phase = "unmounted"
  /\ timers = {}
  /\ anims = <<>>
  /\ \E i \in DOMAIN bdata : bdata[i].id < nextId /\ bdata[i].height = 0

\* C32: while isPlacingMode is on, a map click on a point with no
\* rendered user feature adds exactly one feature to one of the stores.
C32_ClickPlaces ==
  [][(isPlacingMode /\ MapClick(Null))
       => Len(bdata') + Len(tdata') = Len(bdata) + Len(tdata) + 1]_vars

\* C33: a mesh on which a height animation was started while another
\* animation of it was running, and whose animations have all completed,
\* has the target scale of the last height animation started on it.
C33_HeightWins ==
  \A h \in DOMAIN heightTo \cap DOMAIN obj :
    (obj[h].overlapped /\ AtRest(h)) => obj[h].scale = Exact(heightTo[h])

\* C34: while the component is mounted and the storage writes succeed,
\* the persisted snapshot of each kind holds the features of the
\* in-memory collection of that kind (none when nothing is persisted).
C34_SnapshotIsMemory ==
  (phase = "ready" /\ storageOk) =>
    /\ bstore.features = bdata
    /\ tstore.features = tdata

\* C34 witness: a building placed in the session has had its deferred
\* height applied and has been rotated; a snapshot with it is persisted.
C34_PlacedRotatedPersisted ==
  /\ phase = "ready"
  /\ bstore.some
  /\ \E i \in DOMAIN bstore.features :
       /\ bstore.features[i].id < nextId
       /\ bstore.features[i].height \in PlaceHeights
       /\ bstore.features[i].rotation # 0

\* C35: the selected id is null or the id of a feature in the building
\* store or in the tree store.
C35_SelectionExists ==
  selectedId = Null \/ selectedId \in Ids(bdata) \cup Ids(tdata)

\* C36: placing, importing and clearing trees, and deleting while the
\* selected id is that of a stored tree, leave the building store, its
\* persisted snapshot and the mesh index as they are and build no mesh;
\* placing, updating, rotating, importing and clearing buildings, and
\* deleting while the selected id is that of a stored building, leave the
\* tree store and its persisted snapshot as they are.
C36_KindsIndependent ==
  [][/\ (\/ \E z \in TreeSizes : AddTreeAtCenter(z)
         \/ \E doc \in TreeDocs \cup CollidingTreeDocs \cup exportGeoJSON(tstore) :
              ImportTrees(doc)
         \/ ClearTrees
         \/ deleteSelected /\ selectedId \in Ids(tdata))
          => UNCHANGED <<bdata, bstore, meshes, nBuilt>>
     /\ (\/ \E h \in PlaceHeights : AddBuildingAtCenter(h)
         \/ \E h \in UpdateHeights : UpdateSelectedHeight(h)
         \/ \E d \in Deltas : rotateSelectedBuilding(d)
         \/ \E doc \in BuildingDocs \cup exportGeoJSON(bstore) : ImportBuildings(doc)
         \/ ClearBuildings
         \/ deleteSelected /\ selectedId \in Ids(bdata))
          => UNCHANGED <<tdata, tstore>>]_vars

\* C37: a render tick leaves both collections, both persisted snapshots,
\* the mesh index and the scene's membership as they are, and a tick that
\* comes before the layer is set up or after the manager is disposed also
\* leaves the camera and the record of what was drawn as they are.
C37_RenderTouchesOnlyCamera ==
  [][\A m \in Matrices :
       Render(m) =>
         /\ UNCHANGED <<bdata, tdata, bstore, tstore, meshes, scene>>
         /\ phase # "ready" => UNCHANGED <<camera, drawn>>]_vars

\* C37 witness: the component was unmounted after a tick had rendered a
\* stored building; the camera is gone and the last drawing is still the
\* one of that tick.
C37_TickedThenDisposed ==
  /\ phase = "unmounted"
  /\ bdata # <<>>
  /\ drawn.used \in Matrices
  /\ camera = CameraUndefined

\* sum over the points of S of coordinate k, as offsets from the point o
RECURSIVE OffsetSum(_, _, _)
OffsetSum(S, k, o) ==
  IF S = {} THEN 0
  ELSE LET p == CHOOSE x \in S : TRUE IN (p[k] - o[k]) + OffsetSum(S \ {p}, k, o)

\* C38: the ring a rotation writes has 5 positions, four distinct corners
\* and a copy of the first, opposite corners mirror each other in one
\* centre, and that centre is the average of the distinct vertices of the
\* ring it replaces (to within the rounding of one unit), whether that ring
\* was a rectangle, a circle ring or a drawn polygon; a rotation step of the
\* component happens only while the selected id is that of a stored
\* building, and it changes nothing of the stored buildings but the
\* footprint and the rotation of the selected one.
C38_RotateRecentres ==
  /\ [](foot.fn = "rotate" =>
          LET r == foot.ring
              V == Range(foot.from)
              n == Cardinality(V)
              o == foot.from[1]
          IN /\ Len(r) = 5
             /\ \A i \in 1..5 : IsPosition(r[i])
             /\ Cardinality({r[i] : i \in 1..4}) = 4
             /\ r[5] = r[1]
             /\ \A k \in 1..2 :
                  /\ r[1][k] + r[3][k] = r[2][k] + r[4][k]
                  /\ Abs(n * (r[1][k] + r[3][k] - 2 * o[k]) - 2 * OffsetSum(V, k, o)) < 2 * n)
  /\ [][\A d \in Deltas :
         rotateSelectedBuilding(d) =>
           LET idx == FindIndex(bdata, selectedId)
           IN /\ selectedId # Null
              /\ idx # 0
              /\ Len(bdata') = Len(bdata)
              /\ \A i \in DOMAIN bdata : i # idx => bdata'[i] = bdata[i]
              /\ bdata'[idx] = [bdata[idx] EXCEPT !.rotation = bdata'[idx].rotation,
                                                   !.closed = TRUE]
              /\ bdata'[idx].rotation = JsRem(bdata[idx].rotation + d, FullTurn)]_vars

\* C38 witness: a circle ring of 24 segments replaced by a rectangle turned
\* by 15 degrees, and a stored building whose rotation a rotation step set.
C38_CircleTurned ==
  /\ foot.fn = "rotate"
  /\ Len(foot.from) = 25
  /\ Cardinality(Range(foot.from)) = 24
  /\ Len(foot.ring) = 5
  /\ foot.args[5] = 15
  /\ \E i \in DOMAIN bdata : bdata[i].rotation = 15

\* C39: for finite non-negative old and new heights the target scale
\* updateHeight computes is a finite number, and it is 1 when the old
\* height is 0 and the new one is positive.
C39_TargetFinite ==
  toCall # NoCall =>
    /\ toCall.to.cls \in {"zero", "finite"}
    /\ (toCall.old = FZero /\ toCall.newH # FZero) => toCall.to = FOne

====
